---- MODULE Spec2Model ----
(***************************************************************************)
(* Model of the Jenkins SBOM scanner: scanner/main.js (the orchestrator),  *)
(* scanner/trivy-config-scan.js, scanner/trivy-vuln-scan.js,               *)
(* scanner/gitleaks-scan.js (the three scan runners) and                   *)
(* scanner/apiService.js (report aggregation and the upload client).       *)
(***************************************************************************)
EXTENDS Integers, Sequences, FiniteSets, TLC

VARIABLES
    env,        \* the three FAIL_ON_* environment variables
    files,      \* the four report files of scan-report/
    pc,         \* position of the orchestrator
    ret,        \* what each scan runner did: returned a value or threw
    reports,    \* the record built by parseReportFiles
    exitCode,   \* process exit status, NotExited while the process runs
    log,        \* lines written to the console, in order
    requests,   \* HTTP requests created by client.request
    promise,    \* state of the promise returned by sendToAPI
    reqState,   \* state of the ClientRequest
    events,     \* request events that have fired
    response,   \* res.statusCode and the body collected by res.on('data')
    settled,    \* the value or the error the promise of sendToAPI settled with
    body,       \* the fields of the multipart body written to the request
    call        \* a call of a function of apiService.js: its input and its result

vars == <<env, files, pc, ret, reports, exitCode, log, requests, promise,
          reqState, events, response, settled, body, call>>

----------------------------------------------------------------------------
(* Bounds *)

\* Attempts a retrying upload client would make (only mutants can reach it).
MaxAttempts == 3

----------------------------------------------------------------------------
(* Domains *)

NotExited == -1

\* No response received, no promise settled, no function called.
NoValue == [none |-> TRUE]

NoCall == [fn |-> "none"]

\* Response bodies: empty, a JSON text, a text that is not JSON.
Bodies == {"", "{\"ok\":true}", "<html>"}

FailVars == {"FAIL_ON_MISCONFIGURATION", "FAIL_ON_VULNERABILITY", "FAIL_ON_SECRET"}

\* Values of an environment variable: unset, or one of three strings.
EnvValues == {"unset", "true", "false", "0"}

Categories == {"config", "vuln", "secret"}

ReportKeys == {"sbom", "trivyConfig", "trivyVuln", "gitleaks"}

\* A report file is missing, is not JSON, or is a JSON document without or
\* with findings.
FileStates == {"missing", "malformed", "clean", "findings"}

\* Exit statuses of an external tool: success, 1, another failure.
ExitStatuses == {0, 1, 2}

\* HTTP status codes of a response.
StatusCodes == {200, 204, 404, 500}

FlagVar(c) ==
    CASE c = "config" -> "FAIL_ON_MISCONFIGURATION"
      [] c = "vuln"   -> "FAIL_ON_VULNERABILITY"
      [] c = "secret" -> "FAIL_ON_SECRET"

ReportOf(c) ==
    CASE c = "config" -> "trivyConfig"
      [] c = "vuln"   -> "trivyVuln"
      [] c = "secret" -> "gitleaks"

----------------------------------------------------------------------------
(* main.js: configuration *)

fail_on_mutant(v) == v = "true"

\* process.env.FAIL_ON_X !== 'false'
fail_on(v) == v # "false"

\* const fail_on_misconfiguration = process.env.FAIL_ON_MISCONFIGURATION !== 'false'
fail_on_misconfiguration(e) == fail_on(e["FAIL_ON_MISCONFIGURATION"])

fail_on_vulnerability_copied(e) == fail_on(e["FAIL_ON_MISCONFIGURATION"])

\* const fail_on_vulnerability = process.env.FAIL_ON_VULNERABILITY !== 'false'
fail_on_vulnerability(e) == fail_on(e["FAIL_ON_VULNERABILITY"])

\* const fail_on_secret = process.env.FAIL_ON_SECRET !== 'false'
fail_on_secret(e) == fail_on(e["FAIL_ON_SECRET"])

\* The flag main.js tests after runner c, under environment e.
FailOnIn(e, c) ==
    CASE c = "config" -> fail_on_misconfiguration(e)
      [] c = "vuln"   -> fail_on_vulnerability(e)
      [] c = "secret" -> fail_on_secret(e)

FailOn(c) == FailOnIn(env, c)

----------------------------------------------------------------------------
(* The scan runners *)

\* What a tool run leaves in its output file: a tool that exits 0 may have
\* written any content or nothing (the file of an earlier run stays); a tool
\* that fails may have written a partial file.
FileAfter(before) == {before, "malformed", "clean", "findings"}

\* JSON.parse(fs.readFileSync(outputFile)) and the Results[].<Category> scan.
\* Result: "true", "false", or "threw_parse" (JSON.parse threw inside the try).
TrivyReadReport(file) ==
    CASE file = "missing"   -> "false"
      [] file = "malformed" -> "threw_parse"
      [] file = "clean"     -> "false"
      [] file = "findings"  -> "true"

runTrivy_gated(status, file, fail_on_findings) ==
    IF status # 0 THEN "threw_exec"
    ELSE IF fail_on_findings THEN TrivyReadReport(file) ELSE "false"

\* runTrivyScan / runTrivyVulnScan: execSync throws on a non-zero exit.  The
\* fail-on option is destructured and printed in debug mode, nothing else.
runTrivy(status, file, fail_on_findings) ==
    IF status # 0 THEN "threw_exec" ELSE TrivyReadReport(file)

runTrivyScan(status, file, options) == runTrivy(status, file, options)

runTrivyVulnScan(status, file, options) == runTrivy(status, file, options)

runGitleaksScan_anyFailure(status, file) ==
    IF status = 0 THEN "false" ELSE "true"

\* runGitleaksScan: exit 0 -> false, error.status === 1 -> true, else rethrow.
runGitleaksScan(status, file) ==
    CASE status = 0 -> "false"
      [] status = 1 -> "true"
      [] OTHER      -> "threw_exec"

Runner(c, status, file) ==
    CASE c = "config" -> runTrivyScan(status, file, FailOn(c))
      [] c = "vuln"   -> runTrivyVulnScan(status, file, FailOn(c))
      [] c = "secret" -> runGitleaksScan(status, file)

Threw(r) == r \in {"threw_exec", "threw_parse"}

----------------------------------------------------------------------------
(* main.js: the orchestrator *)

Say(lines) == log \o lines

RunningPc(c) ==
    CASE c = "config" -> "config_run"
      [] c = "vuln"   -> "vuln_run"
      [] c = "secret" -> "secret_run"

NextPhase_swapped(c) ==
    CASE c = "config" -> "secret"
      [] c = "secret" -> "vuln"
      [] c = "vuln"   -> "aggregate"

\* The statement that follows the try/catch of runner c in main.js.
NextPhase(c) ==
    CASE c = "config" -> "vuln"
      [] c = "vuln"   -> "secret"
      [] c = "secret" -> "aggregate"

AbortOnFindings_ignoreFlag(hasIssues, flag) == hasIssues

AbortOnFindings_never(hasIssues, flag) == FALSE

\* if (hasIssues && fail_on_x) process.exit(1)
AbortOnFindings(hasIssues, flag) == hasIssues /\ flag

AbortOnError_never(flag) == FALSE

\* catch (error) { ...; if (fail_on_x) process.exit(1) }
AbortOnError(flag) == flag

Init ==
    /\ env \in [FailVars -> EnvValues]
    /\ files = [k \in ReportKeys |-> "missing"]
    /\ pc = "cdxgen"
    /\ ret = [c \in Categories |-> "idle"]
    /\ reports = [k \in ReportKeys |-> "null"]
    /\ exitCode = NotExited
    /\ log = << >>
    /\ requests = 0
    /\ promise = "none"
    /\ reqState = "none"
    /\ events = {}
    /\ response = NoValue
    /\ settled = NoValue
    /\ body = << >>
    /\ call = NoCall

\* execSync(`cdxgen ...`) inside try/catch; a failure exits with 1.
RunCdxgen ==
    /\ pc = "cdxgen"
    /\ \E status \in ExitStatuses, f \in {"missing", "malformed", "clean"} :
          /\ files' = [files EXCEPT !["sbom"] = f]
          /\ IF status = 0
                THEN /\ log' = Say(<<"start:cdxgen", "SBOM scan completed">>)
                     /\ pc' = "config"
                     /\ exitCode' = exitCode
                ELSE /\ log' = Say(<<"start:cdxgen", "Error during SBOM scan">>)
                     /\ pc' = "done"
                     /\ exitCode' = 1
    /\ UNCHANGED <<env, ret, reports, requests, promise, reqState, events, response, settled, body, call>>

StartLine(c) ==
    CASE c = "config" -> "start:config"
      [] c = "vuln"   -> "start:vuln"
      [] c = "secret" -> "start:secret"

\* The call of runner c: the lines it logs before execSync blocks.
StartRunner(c) ==
    /\ pc = c
    /\ pc' = RunningPc(c)
    /\ ret' = [ret EXCEPT ![c] = "running"]
    /\ log' = Say(<<StartLine(c)>>)
    /\ UNCHANGED <<env, files, reports, exitCode, requests, promise, reqState, events,
                   response, settled, body, call>>

\* The tool returns; the runner returns or throws; main's try/catch decides.
FinishRunner(c) ==
    /\ pc = RunningPc(c)
    /\ \E status \in ExitStatuses, f \in FileAfter(files[ReportOf(c)]) :
          LET r == Runner(c, status, f) IN
          /\ files' = [files EXCEPT ![ReportOf(c)] = f]
          /\ ret' = [ret EXCEPT ![c] = r]
          /\ IF Threw(r)
                THEN IF AbortOnError(FailOn(c))
                       THEN /\ log' = Say(<<"Error during scan", "scan failed">>)
                            /\ pc' = "done"
                            /\ exitCode' = 1
                       ELSE /\ log' = Say(<<"Error during scan", "scan failed">>)
                            /\ pc' = NextPhase(c)
                            /\ exitCode' = exitCode
                ELSE IF AbortOnFindings(r = "true", FailOn(c))
                       THEN /\ log' = Say(<<"Warning: found", "found and fail_on enabled">>)
                            /\ pc' = "done"
                            /\ exitCode' = 1
                       ELSE /\ log' = Say(IF r = "true" THEN <<"Warning: found">>
                                                        ELSE << >>)
                            /\ pc' = NextPhase(c)
                            /\ exitCode' = exitCode
    /\ UNCHANGED <<env, reports, requests, promise, reqState, events, response, settled, body, call>>

----------------------------------------------------------------------------
(* apiService.js: report aggregation *)

\* One iteration of the loop of parseReportFiles: a missing file and a file
\* that fails to parse both leave the entry null.
parseReport(file) ==
    IF file \in {"clean", "findings"} THEN file ELSE "null"

\* Object.entries(reportFiles): the order in which the loop visits the files.
ReportFileOrder == <<"sbom", "trivyConfig", "trivyVuln", "gitleaks">>

Before(k) == {ReportFileOrder[j] : j \in {j \in DOMAIN ReportFileOrder :
                 \E i \in DOMAIN ReportFileOrder : j < i /\ ReportFileOrder[i] = k}}

parseReportFiles_abortOnError ==
    [k \in ReportKeys |->
        IF \E b \in Before(k) : files[b] = "malformed" THEN "null"
        ELSE parseReport(files[k])]

\* The try/catch is inside the loop: every file is visited.
parseReportFiles == [k \in ReportKeys |-> parseReport(files[k])]

hasReports_always(r) == TRUE

\* Object.values(reports).some(report => report !== null)
hasReports(r) == \E k \in ReportKeys : r[k] # "null"

\* console.error in the catch of the loop, once for each file that fails.
ParseError(k) == "Error parsing " \o k \o " report"

ParseErrors ==
    LET failed == SelectSeq(ReportFileOrder, LAMBDA k : files[k] = "malformed")
    IN [i \in DOMAIN failed |-> ParseError(failed[i])]

\* main.js async block up to the hasReports check of processAndSendReports.
Aggregate ==
    /\ pc = "aggregate"
    /\ reports' = parseReportFiles
    /\ LET said == Say(<<"start:aggregate">>
                        \o ParseErrors)
       IN IF hasReports(parseReportFiles)
            THEN /\ log' = said
                 /\ pc' = "display"
                 /\ exitCode' = exitCode
            ELSE /\ log' = said \o <<"Failed to process and send reports",
                                      "Failed to send reports to API">>
                 /\ pc' = "done"
                 /\ exitCode' = 1
    /\ UNCHANGED <<env, files, ret, requests, promise, reqState, events, response, settled, body, call>>

\* displayScanResults(reports)
Display ==
    /\ pc = "display"
    /\ log' = Say(<<"start:display">>)
    /\ pc' = "send"
    /\ UNCHANGED <<env, files, ret, reports, exitCode, requests, promise, reqState, events,
                   response, settled, body, call>>

----------------------------------------------------------------------------
(* apiService.js: the report transformer *)

\* A property that an object does not have, an environment variable that is
\* not set.
Undefined == "<undefined>"

\* JSON null (a report that was not parsed).
NullDoc == [null |-> TRUE]

IsNull(d) == "null" \in DOMAIN d

\* object.name
Prop(o, name) == IF name \in DOMAIN o THEN o[name] ELSE Undefined

\* a || b on strings: undefined and '' are falsy.
Or(a, b) == IF a \in {Undefined, ""} THEN b ELSE a

\* x && x.length > 0 on an array property
NonEmptyArray(o, name) == name \in DOMAIN o /\ Len(o[name]) > 0

\* misc => ({ ID, Title, Description || '', ..., Severity || 'UNKNOWN', ... })
transformMisconfiguration(misc) ==
    [ID          |-> Prop(misc, "ID"),
     Title       |-> Prop(misc, "Title"),
     Description |-> Or(Prop(misc, "Description"), ""),
     Message     |-> Or(Prop(misc, "Message"), ""),
     Severity    |-> Or(Prop(misc, "Severity"), "UNKNOWN"),
     PrimaryURL  |-> Or(Prop(misc, "PrimaryURL"), ""),
     Query       |-> Or(Prop(misc, "Query"), ""),
     Resolution  |-> Or(Prop(misc, "Resolution"), "")]

\* The object pushed to results for one target.
transformResult(result) ==
    [Target |-> Prop(result, "Target"),
     Class  |-> Or(Prop(result, "Class"), "config"),
     Type   |-> Or(Prop(result, "Type"), "kubernetes"),
     Misconfigurations |->
         [i \in DOMAIN result.Misconfigurations |->
             transformMisconfiguration(result.Misconfigurations[i])]]

RECURSIVE configResults(_)
\* The forEach loop over trivyConfig.Results: the results array.
configResults(rs) ==
    IF rs = << >> THEN << >>
    ELSE (IF NonEmptyArray(Head(rs), "Misconfigurations")
            THEN <<transformResult(Head(rs))>> ELSE << >>)
         \o configResults(Tail(rs))

RECURSIVE configTotal_perTarget(_)
configTotal_perTarget(rs) ==
    IF rs = << >> THEN 0
    ELSE (IF NonEmptyArray(Head(rs), "Misconfigurations") THEN 1 ELSE 0)
         + configTotal_perTarget(Tail(rs))

RECURSIVE configTotal(_)
\* The forEach loop over trivyConfig.Results: totalMisconfigurations.
configTotal(rs) ==
    IF rs = << >> THEN 0
    ELSE (IF NonEmptyArray(Head(rs), "Misconfigurations")
            THEN Len(Head(rs).Misconfigurations) ELSE 0)
         + configTotal(Tail(rs))

\* transformConfigScanResponse(trivyConfig), with process.env.WORKSPACE and
\* process.cwd() as it reads them.
transformConfigScanResponse(trivyConfig, workspace, cwd) ==
    IF IsNull(trivyConfig) THEN NullDoc
    ELSE LET rs == IF "Results" \in DOMAIN trivyConfig
                     THEN trivyConfig.Results ELSE << >>
         IN [ArtifactName |-> Or(Prop(trivyConfig, "ArtifactName"), Or(workspace, cwd)),
             ArtifactType |-> Or(Prop(trivyConfig, "ArtifactType"), "filesystem"),
             Results |-> configResults(rs),
             TotalMisconfigurations |-> configTotal(rs)]

\* A JSON number or string of a finding: [num |-> n] or [str |-> s].
\* finding.X ? String(finding.X) : '0'
LineString(finding, name) ==
    IF name \notin DOMAIN finding THEN "0"
    ELSE LET v == finding[name]
         IN IF "num" \in DOMAIN v
              THEN (IF v.num # 0 THEN ToString(v.num) ELSE "0")
              ELSE (IF v.str # "" THEN v.str ELSE "0")

\* gitleaksReport.map(finding => ({ ... })): one canonical finding.
transformFinding(finding) ==
    [RuleID      |-> Or(Prop(finding, "RuleID"), Or(Prop(finding, "Rule"), "")),
     Description |-> Or(Prop(finding, "Description"),
                        "Detect " \o Or(Prop(finding, "RuleID"), "secret")),
     File        |-> Or(Prop(finding, "File"), ""),
     Match       |-> Or(Prop(finding, "Match"), ""),
     Secret      |-> Or(Prop(finding, "Secret"), Or(Prop(finding, "Match"), "")),
     StartLine   |-> [str |-> LineString(finding, "StartLine")],
     EndLine     |-> [str |-> LineString(finding, "EndLine")],
     StartColumn |-> [str |-> LineString(finding, "StartColumn")],
     EndColumn   |-> [str |-> LineString(finding, "EndColumn")]]

\* `${item.File}|${item.Secret}|${item.StartLine}|${item.EndLine}|...`
secretKey(item) ==
    item.File \o "|" \o item.Secret \o "|" \o item.StartLine.str \o "|"
        \o item.EndLine.str \o "|" \o item.StartColumn.str \o "|"
        \o item.EndColumn.str

RECURSIVE dedupLast(_, _)
dedupLast(items, seen) ==
    IF items = << >> THEN << >>
    ELSE IF \E i \in 2..Len(items) : secretKey(items[i]) = secretKey(Head(items))
           THEN dedupLast(Tail(items), seen)
           ELSE <<Head(items)>> \o dedupLast(Tail(items), seen)

RECURSIVE dedup(_, _)
\* for (const item of transformed) { if (!seen.has(key)) { ...push } }
dedup(items, seen) ==
    IF items = << >> THEN << >>
    ELSE LET key == secretKey(Head(items))
         IN IF key \in seen
              THEN dedup(Tail(items), seen)
              ELSE <<Head(items)>> \o dedup(Tail(items), seen \cup {key})

\* transformSecretScanResponse(gitleaksReport): the report is null, an array
\* [array |-> findings], or another JSON value.
transformSecretScanResponse(gitleaksReport) ==
    IF "array" \notin DOMAIN gitleaksReport THEN << >>
    ELSE dedup([i \in DOMAIN gitleaksReport.array |->
                    transformFinding(gitleaksReport.array[i])], {})

----------------------------------------------------------------------------
(* apiService.js: the upload client *)

\* The environment Jenkins gives a build (README: Jenkins Environment
\* Variables): build and job identifiers and the branch are set.
JenkinsEnv ==
    [ORGANIZATION_ID |-> Undefined, BUILD_ID |-> "42", BUILD_NUMBER |-> "42",
     JOB_NAME |-> "job", REPO_NAME |-> Undefined, GIT_BRANCH |-> "origin/main",
     BRANCH_NAME |-> Undefined, WORKSPACE |-> "/ws"]

\* repoName || null
JsonNull == "<null>"

\* The documents behind the states of a report: what JSON.parse returned.
Misconfiguration1 == [ID |-> "DS002", Title |-> "root user", Severity |-> "HIGH"]

Finding1 ==
    [RuleID |-> "aws-key", File |-> "a", Match |-> "key=AKIA", Secret |-> "AKIA",
     StartLine |-> [num |-> 1], EndLine |-> [num |-> 1],
     StartColumn |-> [num |-> 1], EndColumn |-> [num |-> 9]]

Document(k, r) ==
    IF r = "null" THEN NullDoc
    ELSE CASE k = "trivyConfig" ->
                [ArtifactName |-> ".", Results |->
                    <<[Target |-> "Dockerfile", Misconfigurations |->
                          IF r = "findings" THEN <<Misconfiguration1>> ELSE << >>]>>]
           [] k = "gitleaks" ->
                [array |-> IF r = "findings" THEN <<Finding1>> ELSE << >>]
           [] OTHER -> [report |-> k, content |-> r]

\* const combinedScanRequest = { configScanResponseDto, scannerSecretResponse,
\*                               repoName: repoName || null, branchName: ... }
combinedScanRequest(r, e) ==
    [configScanResponseDto |->
         transformConfigScanResponse(Document("trivyConfig", r["trivyConfig"]),
                                     e.WORKSPACE, "/cwd"),
     scannerSecretResponse |->
         transformSecretScanResponse(Document("gitleaks", r["gitleaks"])),
     repoName   |-> Or(Or(e.JOB_NAME, e.REPO_NAME), JsonNull),
     branchName |-> Or(Or(e.GIT_BRANCH, e.BRANCH_NAME), JsonNull)]

formJobId_noFallback(e) == e.BUILD_ID

\* process.env.BUILD_ID || process.env.BUILD_NUMBER
formJobId(e) == Or(e.BUILD_ID, e.BUILD_NUMBER)

\* process.env.JOB_NAME || process.env.REPO_NAME
formRepoName(e) == Or(e.JOB_NAME, e.REPO_NAME)

\* process.env.GIT_BRANCH || process.env.BRANCH_NAME
formBranchName(e) == Or(e.GIT_BRANCH, e.BRANCH_NAME)

\* if (value) parts.push(...)
OptionalField(name, value) ==
    IF value \in {Undefined, ""} THEN << >> ELSE <<[name |-> name, value |-> value]>>

\* createMultipartFormData(combinedScanRequest, sbomFilePath, boundary): the
\* fields of the body in order; sbom is the state of the file at sbomFilePath.
createMultipartFormData(request, sbom, e) ==
    <<[name |-> "combinedScanRequest", json |-> request]>>
    \o (IF sbom # "missing"
          THEN <<[name |-> "sbomFile", filename |-> "cyclonedx.json", file |-> sbom]>>
          ELSE << >>)
    \o <<[name |-> "displayName", value |-> "sbom"],
         [name |-> "source", value |-> "jenkins"]>>
    \o OptionalField("organizationId", e.ORGANIZATION_ID)
    \o OptionalField("jobId", formJobId(e))
    \o OptionalField("repoName", formRepoName(e))
    \o OptionalField("branchName", formBranchName(e))

\* resolve()/reject() of a promise: only a pending promise changes.
Settle(p, to) == IF p = "pending" THEN to ELSE p

\* sendToAPI up to req.end(): the promise is created, client.request creates
\* the one request, the handlers are attached, the body is written.
Send ==
    /\ pc = "send"
    /\ log' = Say(<<"start:upload">>)
    /\ requests' = requests + 1
    /\ promise' = "pending"
    /\ reqState' = "open"
    /\ pc' = "await"
    /\ body' = createMultipartFormData(combinedScanRequest(reports, JenkinsEnv),
                                       files["sbom"], JenkinsEnv)
    /\ UNCHANGED <<env, files, ret, reports, exitCode, events, response, settled, call>>

Is2xx_lenient(code) == code >= 200 /\ code < 500

\* res.statusCode >= 200 && res.statusCode < 300
Is2xx(code) == code >= 200 /\ code < 300

SettleWith_overwrite(p, old, v) == v

\* What the promise holds: a settled promise keeps its first value.
SettleWith(p, old, v) == IF p = "pending" THEN v ELSE old

\* JSON.parse succeeds on the JSON text only.
IsJSON(b) == b = "{\"ok\":true}"

ParseBody_unguarded(b) ==
    IF IsJSON(b) THEN [type |-> "object", text |-> b]
                 ELSE [type |-> "string", text |-> b]

\* data ? JSON.parse(data) : {}   with the raw text when JSON.parse throws
ParseBody(b) ==
    IF b = "" THEN [type |-> "object", text |-> "{}"]
    ELSE IF IsJSON(b) THEN [type |-> "object", text |-> b]
    ELSE [type |-> "string", text |-> b]

\* new Error(`API request failed with status ${res.statusCode}: ${data}`)
StatusError(code, b) ==
    [error |-> "API request failed with status", statusCode |-> code, data |-> b]

\* new Error('API request timeout')
TimeoutError == [error |-> "API request timeout"]

\* The error object of the 'error' event.
NetworkError == [error |-> "request error"]

\* res.on('end'): the whole response has arrived.
ResponseEnd(code, b) ==
    /\ pc = "await"
    /\ reqState = "open"
    /\ events' = events \cup {"end"}
    /\ reqState' = "finished"
    /\ response' = [statusCode |-> code, data |-> b]
    /\ IF Is2xx(code)
         THEN /\ log' = Say(<<"Reports sent successfully">>)
              /\ promise' = Settle(promise, "resolved")
              /\ settled' = SettleWith(promise, settled,
                                [statusCode |-> code, data |-> ParseBody(b)])
         ELSE /\ log' = Say(<<"API request failed with status">>)
              /\ promise' = Settle(promise, "rejected")
              /\ settled' = SettleWith(promise, settled, StatusError(code, b))
    /\ UNCHANGED <<env, files, ret, reports, exitCode, requests, pc, body, call>>

RequestError_retry ==
    /\ pc = "await"
    /\ \/ reqState = "open"
       \/ reqState = "destroyed" /\ "error" \notin events
    /\ events' = events \cup {"error"}
    /\ log' = Say(<<"API request failed">>)
    /\ IF requests < MaxAttempts
         THEN /\ requests' = requests + 1
              /\ reqState' = "open"
              /\ promise' = promise
              /\ settled' = settled
         ELSE /\ requests' = requests
              /\ reqState' = IF reqState = "open" THEN "failed" ELSE reqState
              /\ promise' = Settle(promise, "rejected")
              /\ settled' = SettleWith(promise, settled, NetworkError)
    /\ UNCHANGED <<env, files, ret, reports, exitCode, pc, response, body, call>>

\* req.on('error'): a network error, or the error that req.destroy() raises
\* after a timeout.
RequestError ==
    /\ pc = "await"
    /\ \/ reqState = "open"
       \/ reqState = "destroyed" /\ "error" \notin events
    /\ events' = events \cup {"error"}
    /\ reqState' = IF reqState = "open" THEN "failed" ELSE reqState
    /\ log' = Say(<<"API request failed">>)
    /\ promise' = Settle(promise, "rejected")
    /\ settled' = SettleWith(promise, settled, NetworkError)
    /\ UNCHANGED <<env, files, ret, reports, exitCode, requests, pc, response, body, call>>

Timeout_noReject ==
    /\ pc = "await"
    /\ reqState = "open"
    /\ events' = events \cup {"timeout"}
    /\ reqState' = "destroyed"
    /\ UNCHANGED <<env, files, ret, reports, exitCode, requests, pc, log, response,
                   body, call, promise, settled>>

\* req.setTimeout callback: req.destroy(); reject(...)
Timeout ==
    /\ pc = "await"
    /\ reqState = "open"
    /\ events' = events \cup {"timeout"}
    /\ reqState' = "destroyed"
    /\ promise' = Settle(promise, "rejected")
    /\ settled' = SettleWith(promise, settled, TimeoutError)
    /\ UNCHANGED <<env, files, ret, reports, exitCode, requests, pc, log, response, body, call>>

AwaitResume_swallow ==
    /\ pc = "await"
    /\ promise \in {"resolved", "rejected"}
    /\ log' = Say(IF promise = "resolved"
                    THEN <<"Successfully processed and sent all reports",
                           "All scans and API submission completed">>
                    ELSE <<"Failed to process and send reports">>)
    /\ pc' = "drain"
    /\ exitCode' = exitCode
    /\ UNCHANGED <<env, files, ret, reports, requests, promise, reqState, events,
                   response, settled, body, call>>

\* The await of processAndSendReports resumes once the promise has settled;
\* a rejection goes through both catch blocks to process.exit(1).
AwaitResume ==
    /\ pc = "await"
    /\ promise \in {"resolved", "rejected"}
    /\ IF promise = "resolved"
         THEN /\ log' = Say(<<"Successfully processed and sent all reports",
                              "All scans and API submission completed">>)
              /\ pc' = "drain"
              /\ exitCode' = exitCode
         ELSE /\ log' = Say(<<"Failed to process and send reports",
                              "Failed to send reports to API">>)
              /\ pc' = "done"
              /\ exitCode' = 1
    /\ UNCHANGED <<env, files, ret, reports, requests, promise, reqState, events,
                   response, settled, body, call>>

\* Nothing is left to run: node exits with status 0.
ProcessEnd ==
    /\ pc = "drain"
    /\ pc' = "done"
    /\ exitCode' = 0
    /\ UNCHANGED <<env, files, ret, reports, log, requests, promise, reqState, events,
                   response, settled, body, call>>

----------------------------------------------------------------------------

Next ==
    \/ RunCdxgen
    \/ \E c \in Categories : StartRunner(c)
    \/ \E c \in Categories : FinishRunner(c)
    \/ Aggregate
    \/ Display
    \/ Send
    \/ \E code \in StatusCodes, b \in Bodies : ResponseEnd(code, b)
    \/ RequestError
    \/ Timeout
    \/ AwaitResume
    \/ ProcessEnd

Spec == Init /\ [][Next]_vars

TypeOK ==
    /\ env \in [FailVars -> EnvValues]
    /\ files \in [ReportKeys -> FileStates]
    /\ exitCode \in {NotExited, 0, 1}
    /\ requests \in Nat
    /\ promise \in {"none", "pending", "resolved", "rejected"}
    /\ reqState \in {"none", "open", "finished", "failed", "destroyed"}
    /\ events \subseteq {"end", "error", "timeout"}

----------------------------------------------------------------------------
(* Properties of the orchestrator *)

Said(line) == \E i \in DOMAIN log : log[i] = line

LastSaid(line) == Len(log) > 0 /\ log[Len(log)] = line

IsPrefix(s, t) == Len(s) <= Len(t) /\ SubSeq(t, 1, Len(s)) = s

PhaseOrder == <<"start:cdxgen", "start:config", "start:vuln", "start:secret",
                "start:aggregate", "start:display", "start:upload">>

IsStart(line) == \E i \in DOMAIN PhaseOrder : PhaseOrder[i] = line

Starts == SelectSeq(log, IsStart)

\* The runners main.js calls after runner c.
Later(c) ==
    CASE c = "config" -> {"vuln", "secret"}
      [] c = "vuln"   -> {"secret"}
      [] c = "secret" -> {}

Over(c) == ret[c] \in {"false", "true", "threw_exec", "threw_parse"}

FinalPhaseUntouched ==
    /\ reports = [k \in ReportKeys |-> "null"]
    /\ ~Said("start:aggregate") /\ ~Said("start:display") /\ ~Said("start:upload")
    /\ requests = 0
    /\ promise = "none"

\* The run ended in the try/catch of runner c.
EndedAt(c) ==
    /\ pc = "done"
    /\ Over(c)
    /\ \A d \in Later(c) : ret[d] = "idle"
    /\ FinalPhaseUntouched

\* C1: once a runner has returned 'findings present' while its fail-on flag is
\* set, the process has exited with status 1, no later runner was started and
\* nothing of aggregation, console report or upload has happened.
C1_FailFast ==
    \A c \in Categories :
        (ret[c] = "true" /\ FailOn(c)) => (exitCode = 1 /\ EndedAt(c))

C1_Witness ==
    /\ ret["vuln"] = "true" /\ FailOn("vuln")
    /\ ret["config"] = "true" /\ ~FailOn("config")
    /\ exitCode = 1

FollowingPc(c) ==
    CASE c = "config" -> "vuln"
      [] c = "vuln"   -> "secret"
      [] c = "secret" -> "aggregate"

NothingFailed ==
    /\ \A c \in Categories : ret[c] \in {"false", "true"}
    /\ \A c \in Categories : ret[c] = "true" => ~FailOn(c)
    /\ \E k \in ReportKeys : reports[k] # "null"
    /\ events = {"end"} /\ promise = "resolved"

\* C2: a runner that reports findings while its fail-on flag is false is
\* followed by the next phase with the exit status untouched, and a run in
\* which nothing else fails ends with status 0.
C2_NonBlockingFindings ==
    /\ [][\A c \in Categories :
             (pc = RunningPc(c) /\ ret'[c] = "true" /\ ~FailOn(c))
                => (pc' = FollowingPc(c) /\ exitCode' = exitCode)]_vars
    /\ []((pc = "done" /\ NothingFailed) => exitCode = 0)

C2_Witness ==
    /\ pc = "done" /\ exitCode = 0
    /\ ret["config"] = "true" /\ ret["secret"] = "true"

\* C3: the phases start in the order cdxgen, config, vulnerability, secret,
\* aggregation, console report, upload; a runner starts only when the one
\* before it has returned or thrown, and the final phase only when all three
\* are over.
C3_FixedOrder ==
    /\ IsPrefix(Starts, PhaseOrder)
    /\ ret["vuln"] # "idle" => Over("config")
    /\ ret["secret"] # "idle" => Over("vuln")
    /\ Said("start:aggregate") => \A c \in Categories : Over(c)
    /\ Cardinality({c \in Categories : ret[c] = "running"}) <= 1

C3_Witness == Starts = PhaseOrder /\ pc = "await"

\* C4: an execution error thrown by a runner is caught and logged; with the
\* category's fail-on flag set the process exits with status 1, otherwise the
\* run continues with the next phase.
C4_ExecutionError ==
    [][\A c \in Categories :
          (pc = RunningPc(c) /\ ret'[c] = "threw_exec")
             => /\ log'[Len(log')] = "scan failed"
                /\ IF FailOn(c)
                     THEN pc' = "done" /\ exitCode' = 1
                     ELSE pc' = FollowingPc(c) /\ exitCode' = exitCode]_vars

\* ... so a run in which a runner threw can still reach the upload.
C4_Witness ==
    /\ ret["config"] = "threw_exec" /\ ret["secret"] = "threw_exec"
    /\ requests = 1 /\ pc = "await"

AbortedOnFindings(c) ==
    /\ ret[c] = "true"
    /\ exitCode = 1
    /\ EndedAt(c)
    /\ LastSaid("found and fail_on enabled")

Unparsed(k) == files[k] \in {"missing", "malformed"}

\* C7: after aggregation, if no report file gave a parsed document the run
\* has ended with status 1 and no request was ever created; if at least one
\* did, the run goes on to the console report and the upload.
C7_NoReportsNoUpload ==
    Said("start:aggregate") =>
        IF \A k \in ReportKeys : Unparsed(k)
          THEN /\ pc = "done" /\ exitCode = 1
               /\ requests = 0 /\ promise = "none" /\ reqState = "none"
               /\ ~Said("start:display") /\ ~Said("start:upload")
          ELSE /\ reports = parseReportFiles
               /\ \/ pc \in {"display", "send"} /\ requests = 0
                  \/ pc \in {"await", "drain", "done"} /\ requests = 1

C7_Witness ==
    /\ Said("start:aggregate")
    /\ \A k \in ReportKeys : Unparsed(k)
    /\ files["trivyVuln"] = "malformed"
    /\ exitCode = 1

\* C8 as stated: no run ends with a non-zero status when its only failure is
\* a report file that does not parse.
C8_Original ==
    \A c \in Categories :
        ~ /\ ret[c] = "threw_parse"
          /\ \A d \in Categories \ {c} : ret[d] \in {"idle", "false"}
          /\ EndedAt(c)
          /\ exitCode = 1

C10_Original ==
    (pc = "done" /\ "timeout" \in events) => requests > 1

----------------------------------------------------------------------------
(* Properties of the upload client *)

\* C11: the settled promise follows the response: a status in 200..299
\* resolves with the status code and the body parsed as JSON (the raw text when
\* it is not JSON, an empty object when it is empty); another status rejects
\* with an error carrying the status code and the body; a timeout destroys the
\* request and rejects with the timeout error.
C11_ResultFollowsResponse ==
    /\ "end" \in events =>
          LET code == response.statusCode
              data == response.data
          IN IF code \in 200..299
               THEN /\ promise = "resolved"
                    /\ settled.statusCode = code
                    /\ settled.data =
                         (CASE data = "" -> [type |-> "object", text |-> "{}"]
                            [] data = "<html>" -> [type |-> "string", text |-> "<html>"]
                            [] OTHER -> [type |-> "object", text |-> data])
               ELSE /\ promise = "rejected"
                    /\ settled.error = "API request failed with status"
                    /\ settled.statusCode = code
                    /\ settled.data = data
    /\ "timeout" \in events =>
          /\ reqState = "destroyed"
          /\ promise = "rejected"
          /\ settled = [error |-> "API request timeout"]
    /\ promise = "resolved" => "end" \in events

C11_Witness ==
    /\ promise = "resolved" /\ response.data = "" /\ response.statusCode = 204
    /\ pc = "done"

FinalPhaseFailed ==
    \/ \A k \in ReportKeys : reports[k] = "null"
    \/ "error" \in events
    \/ "timeout" \in events
    \/ "end" \in events /\ response.statusCode \notin 200..299

----------------------------------------------------------------------------
(* Calls of single functions of apiService.js.  The orchestrator stays at   *)
(* its start; call records the function, its input and its result.         *)

mainVars == <<env, files, pc, ret, reports, exitCode, log, requests, promise,
              reqState, events, response, settled, body>>

\* The process before main.js has done anything.
Idle ==
    /\ env = [v \in FailVars |-> "unset"]
    /\ files = [k \in ReportKeys |-> "missing"]
    /\ pc = "cdxgen"
    /\ ret = [c \in Categories |-> "idle"]
    /\ reports = [k \in ReportKeys |-> "null"]
    /\ exitCode = NotExited
    /\ log = << >>
    /\ requests = 0
    /\ promise = "none"
    /\ reqState = "none"
    /\ events = {}
    /\ response = NoValue
    /\ settled = NoValue
    /\ body = << >>

CallInit == Idle /\ call = NoCall

RECURSIVE Join(_)
\* The string made of the pieces of s.
Join(s) == IF s = << >> THEN "" ELSE Head(s) \o Join(Tail(s))

RECURSIVE SeqsUpTo(_, _)
\* The sequences over S of length at most n.
SeqsUpTo(S, n) ==
    IF n = 0 THEN {<< >>}
    ELSE LET shorter == SeqsUpTo(S, n - 1)
         IN shorter \cup {Append(q, x) : q \in shorter, x \in S}

----------------------------------------------------------------------------
(* apiService.js: the request path *)

\* Longest project id drawn from IdChars.
MaxIdLen == 3

IdChars == {"a", "-", " ", "?", "#", "/"}

\* process.env.PROJECT_ID: unset, or a string given by its characters.
Unset == <<"unset">>

ProjectIds ==
    {Unset, <<"a", "b", "c", "-", "1", "2", "3">>} \cup SeqsUpTo(IdChars, MaxIdLen)

\* The path of NT_API_ENDPOINT: none, or a prefix.
EndpointPaths == {"", "/api"}

UploadAll == "/open-pulse/project/upload-all"

\* projectId ? `${apiUrl}/open-pulse/project/upload-all/${projectId}`
\*           : `${apiUrl}/open-pulse/project/upload-all`
\* as the characters that follow the origin of the URL.
fullApiUrl(prefix, projectId) ==
    IF projectId = Unset \/ projectId = << >>
      THEN <<prefix, UploadAll>>
      ELSE <<prefix, UploadAll, "/">> \o projectId

RECURSIVE StripTrailing(_)
\* new URL(): spaces at the end of the input are removed before parsing.
StripTrailing(s) ==
    IF s # << >> /\ s[Len(s)] = " " THEN StripTrailing(SubSeq(s, 1, Len(s) - 1)) ELSE s

RECURSIVE UpTo(_, _)
\* The pieces of s before the first one that is in stop.
UpTo(s, stop) ==
    IF s = << >> \/ Head(s) \in stop THEN << >>
    ELSE <<Head(s)>> \o UpTo(Tail(s), stop)

\* The URL parser percent-encodes a space of the path and of the query.
UrlEncode(s) == [i \in DOMAIN s |-> IF s[i] = " " THEN "%20" ELSE s[i]]

\* url.pathname: the input up to the first '?' or '#'.
pathname(s) == UrlEncode(UpTo(StripTrailing(s), {"?", "#"}))

\* url.search: from the first '?' up to the first '#'; empty for an empty query.
search(s) ==
    LET t == StripTrailing(s)
        before == UpTo(t, {"?", "#"})
        after == SubSeq(t, Len(before) + 1, Len(t))
    IN IF after = << >> \/ Head(after) = "#" THEN << >>
       ELSE LET query == UpTo(Tail(after), {"#"})
            IN IF query = << >> THEN << >> ELSE <<"?">> \o UrlEncode(query)

\* requestOptions.path = url.pathname + url.search
requestPath(prefix, projectId) ==
    LET s == fullApiUrl(prefix, projectId)
    IN Join(pathname(s) \o search(s))

CallRequestPath ==
    /\ call = NoCall
    /\ \E prefix \in EndpointPaths, id \in ProjectIds :
          call' = [fn |-> "requestPath", prefix |-> prefix, projectId |-> id,
                   out |-> requestPath(prefix, id)]
    /\ UNCHANGED mainVars

PathNext == CallRequestPath

PathSpec == CallInit /\ [][PathNext]_vars

\* encodeURIComponent on the characters of IdChars.
EscapeChar(c) ==
    CASE c = " " -> "%20"
      [] c = "?" -> "%3F"
      [] c = "#" -> "%23"
      [] c = "/" -> "%2F"
      [] OTHER   -> c

\* C13 as stated: the path is the upload-all path, followed by '/' and the
\* URL-escaped project id exactly when a project id is configured.
C13_Original ==
    call.fn = "requestPath" =>
        call.out = call.prefix \o UploadAll \o
                   (IF call.projectId = Unset \/ call.projectId = << >>
                      THEN ""
                      ELSE "/" \o Join([i \in DOMAIN call.projectId |->
                                           EscapeChar(call.projectId[i])]))

\* The cases of C13 that hold: without a project id the suffix is absent, and
\* the project id abc-123 gives /upload-all/abc-123.
C13_PlainIds ==
    call.fn = "requestPath" =>
        /\ call.projectId = Unset => call.out = call.prefix \o UploadAll
        /\ call.projectId = <<"a", "b", "c", "-", "1", "2", "3">> =>
              call.out = call.prefix \o "/open-pulse/project/upload-all/abc-123"

----------------------------------------------------------------------------
(* apiService.js: the multipart body *)

FormVars == {"ORGANIZATION_ID", "BUILD_ID", "BUILD_NUMBER", "JOB_NAME",
             "REPO_NAME", "GIT_BRANCH", "BRANCH_NAME"}

\* An environment variable is unset, empty or has a value.
FormValues == {Undefined, "", "v"}

FormEnvs == [FormVars -> FormValues]

SbomStates == {"missing", "malformed", "clean"}

CallCreateMultipartFormData ==
    /\ call = NoCall
    /\ \E e \in FormEnvs, sbom \in SbomStates :
          LET full == [v \in FormVars \cup {"WORKSPACE"} |->
                          IF v \in FormVars THEN e[v] ELSE Undefined]
          IN call' = [fn |-> "createMultipartFormData", env |-> full, sbom |-> sbom,
                      out |-> createMultipartFormData(
                                  combinedScanRequest(
                                      [k \in ReportKeys |-> "null"], full),
                                  sbom, full)]
    /\ UNCHANGED mainVars

FormNext == CallCreateMultipartFormData

FormSpec == CallInit /\ [][FormNext]_vars

\* The environment variable has a value.
IsSet(v) == v # Undefined /\ v # ""

FieldsNamed(b, name) == {i \in DOMAIN b : b[i].name = name}

\* C14: every body has combinedScanRequest, displayName = sbom and source =
\* jenkins once each; sbomFile exactly when the SBOM file exists; and each of
\* organizationId, jobId, repoName, branchName exactly when one of its
\* environment variables has a value.
C14_MultipartFields ==
    call.fn = "createMultipartFormData" =>
        LET b == call.out
            e == call.env
            Has(name) == FieldsNamed(b, name) # {}
        IN /\ \A n \in {"combinedScanRequest", "displayName", "source"} :
                 Cardinality(FieldsNamed(b, n)) = 1
           /\ \A i \in FieldsNamed(b, "displayName") : b[i].value = "sbom"
           /\ \A i \in FieldsNamed(b, "source") : b[i].value = "jenkins"
           /\ Has("sbomFile") <=> call.sbom # "missing"
           /\ Has("organizationId") <=> IsSet(e.ORGANIZATION_ID)
           /\ Has("jobId") <=> (IsSet(e.BUILD_ID) \/ IsSet(e.BUILD_NUMBER))
           /\ Has("repoName") <=> (IsSet(e.JOB_NAME) \/ IsSet(e.REPO_NAME))
           /\ Has("branchName") <=> (IsSet(e.GIT_BRANCH) \/ IsSet(e.BRANCH_NAME))
           /\ \A i, j \in DOMAIN b : b[i].name = b[j].name => i = j

C14_Witness ==
    /\ call.fn = "createMultipartFormData"
    /\ call.sbom = "missing"
    /\ call.env.BUILD_ID = "" /\ call.env.BUILD_NUMBER = "v"
    /\ call.env.ORGANIZATION_ID = Undefined
    /\ Len(call.out) = 4

----------------------------------------------------------------------------
(* What an upload carries *)

\* The reports whose content is in the body: the SBOM as the sbomFile field,
\* the config report as configScanResponseDto, the gitleaks report as
\* scannerSecretResponse.  No field of the body is built from trivyVuln.
ReportsInBody(b) ==
    {k \in ReportKeys :
        \E i \in DOMAIN b :
            \/ k = "sbom" /\ b[i].name = "sbomFile"
            \/ /\ k = "trivyConfig" /\ b[i].name = "combinedScanRequest"
               /\ ~IsNull(b[i].json.configScanResponseDto)
            \/ /\ k = "gitleaks" /\ b[i].name = "combinedScanRequest"
               /\ reports[k] # "null"
               /\ b[i].json.scannerSecretResponse =
                     transformSecretScanResponse(Document(k, reports[k]))}

\* The report files the tools wrote as JSON documents.
Generated == {k \in ReportKeys : files[k] \in {"clean", "findings"}}

\* C15 as the documentation states it: an upload carries the content of every
\* report that was generated.
C15_Original == requests >= 1 => Generated \subseteq ReportsInBody(body)

----------------------------------------------------------------------------
(* The aggregated record *)

Aggregated == Said("start:aggregate")

\* C16: parseReportFiles does not throw and treats each file on its own: the
\* record has exactly the keys sbom, trivyConfig, trivyVuln and gitleaks, the
\* entry of a missing or unparsable file is null, the entry of a parsable file
\* is its document whatever the other files are, and an error is logged for
\* each unparsable file and for no other.
C16_ParseReportFiles ==
    Aggregated =>
        /\ DOMAIN reports = {"sbom", "trivyConfig", "trivyVuln", "gitleaks"}
        /\ \A k \in DOMAIN reports :
              /\ files[k] = "missing" => reports[k] = "null"
              /\ files[k] = "malformed" => reports[k] = "null"
              /\ files[k] \in {"clean", "findings"} => reports[k] = files[k]
              /\ Said(ParseError(k)) <=> files[k] = "malformed"

\* An unparsable SBOM, a missing config report and a parsed gitleaks report in
\* the same run.
C16_Witness ==
    /\ Aggregated
    /\ files["sbom"] = "malformed" /\ reports["sbom"] = "null"
    /\ files["trivyConfig"] = "missing"
    /\ reports["gitleaks"] = "findings"

----------------------------------------------------------------------------
(* transformConfigScanResponse as a function of the config report *)

MaxTargets == 3

Misconfiguration2 == [ID |-> "KSV001", Title |-> "privilege escalation",
                      Resolution |-> "set allowPrivilegeEscalation to false"]

\* Entries of Results: a target without a Misconfigurations property, one
\* with an empty list, one with one and one with two misconfigurations.
TargetPool ==
    {[Target |-> "go.mod", Class |-> "lang-pkgs"],
     [Target |-> "Dockerfile", Misconfigurations |-> << >>],
     [Target |-> "deploy.yaml", Misconfigurations |-> <<Misconfiguration2>>],
     [Target |-> "pod.yaml", Type |-> "kubernetes",
      Misconfigurations |-> <<Misconfiguration1, Misconfiguration2>>]}

\* The parsed trivy-config-report.json documents, and null.
ConfigReports ==
    {NullDoc, [ArtifactName |-> "."]}
    \cup {[Results |-> rs] : rs \in SeqsUpTo(TargetPool, MaxTargets)}
    \cup {[ArtifactName |-> ".", ArtifactType |-> "repository", Results |-> rs] :
              rs \in SeqsUpTo(TargetPool, MaxTargets)}

CallTransformConfigScanResponse ==
    /\ call = NoCall
    /\ \E trivyConfig \in ConfigReports, workspace \in {Undefined, "/ws"} :
          call' = [fn |-> "transformConfigScanResponse",
                   trivyConfig |-> trivyConfig, workspace |-> workspace,
                   out |-> transformConfigScanResponse(trivyConfig, workspace, "/cwd")]
    /\ UNCHANGED mainVars

ConfigNext == CallTransformConfigScanResponse

ConfigSpec == CallInit /\ [][ConfigNext]_vars

\* The misconfigurations of a report, each named by its target's position and
\* its position in the target's list.
MisconfigurationsOf(results) ==
    UNION {{<<i, j>> : j \in DOMAIN results[i].Misconfigurations} :
              i \in {i \in DOMAIN results : "Misconfigurations" \in DOMAIN results[i]}}

ConfigCalled == call.fn = "transformConfigScanResponse" /\ ~IsNull(call.trivyConfig)

\* C17: for a report with N misconfigurations across its targets, the DTO's
\* TotalMisconfigurations is N, the lists of its Results hold N entries in
\* all, and no entry of Results has an empty list.
C17_TotalMisconfigurations ==
    ConfigCalled =>
        LET N == IF "Results" \in DOMAIN call.trivyConfig
                   THEN Cardinality(MisconfigurationsOf(call.trivyConfig.Results))
                   ELSE 0
        IN /\ call.out.TotalMisconfigurations = N
           /\ Cardinality(MisconfigurationsOf(call.out.Results)) = N
           /\ \A i \in DOMAIN call.out.Results :
                 Len(call.out.Results[i].Misconfigurations) > 0

\* Three targets, one of them without misconfigurations, three
\* misconfigurations in all.
C17_Witness ==
    /\ ConfigCalled
    /\ "Results" \in DOMAIN call.trivyConfig
    /\ Len(call.trivyConfig.Results) = 3
    /\ Len(call.out.Results) = 2
    /\ call.out.TotalMisconfigurations = 3

----------------------------------------------------------------------------
(* transformSecretScanResponse as a function of the gitleaks report *)

MaxSecrets == 5

\* Raw findings: Finding2 is Finding3 found by another rule; Finding4 has
\* another file and another secret than Finding3; Finding5 has no Secret and
\* no position; Finding6 is at the position 0 that Finding5 defaults to.
Finding2 ==
    [Rule |-> "generic", File |-> "a", Match |-> "k=b|1", Secret |-> "b|1",
     StartLine |-> [num |-> 1], EndLine |-> [num |-> 1],
     StartColumn |-> [num |-> 1], EndColumn |-> [num |-> 9]]

Finding3 ==
    [RuleID |-> "aws-key", Description |-> "AWS key", File |-> "a",
     Match |-> "k=b|1", Secret |-> "b|1",
     StartLine |-> [num |-> 1], EndLine |-> [num |-> 1],
     StartColumn |-> [num |-> 1], EndColumn |-> [num |-> 9]]

Finding4 ==
    [RuleID |-> "aws-key", File |-> "a|b", Match |-> "k=1", Secret |-> "1",
     StartLine |-> [num |-> 1], EndLine |-> [num |-> 1],
     StartColumn |-> [num |-> 1], EndColumn |-> [num |-> 9]]

Finding5 == [RuleID |-> "token", File |-> "c", Match |-> "m"]

Finding6 ==
    [RuleID |-> "token", File |-> "c", Match |-> "x", Secret |-> "m",
     StartLine |-> [num |-> 0], EndLine |-> [str |-> ""],
     StartColumn |-> [str |-> "0"], EndColumn |-> [num |-> 0]]

FindingPool == {Finding1, Finding2, Finding3, Finding4, Finding5, Finding6}

\* The parsed gitleaks-report.json documents: null, an object, an array.
GitleaksReports ==
    {NullDoc, [message |-> "no leaks"]}
    \cup {[array |-> fs] : fs \in SeqsUpTo(FindingPool, MaxSecrets)}

CallTransformSecretScanResponse ==
    /\ call = NoCall
    /\ \E gitleaksReport \in GitleaksReports :
          call' = [fn |-> "transformSecretScanResponse",
                   gitleaksReport |-> gitleaksReport,
                   out |-> transformSecretScanResponse(gitleaksReport)]
    /\ UNCHANGED mainVars

SecretNext == CallTransformSecretScanResponse

SecretSpec == CallInit /\ [][SecretNext]_vars

SecretCalled ==
    call.fn = "transformSecretScanResponse" /\ "array" \in DOMAIN call.gitleaksReport

\* The identity key of a canonical finding.
IdentityKey(item) ==
    <<item.File, item.Secret, item.StartLine.str, item.EndLine.str,
      item.StartColumn.str, item.EndColumn.str>>

\* The entries of a list that are the first with their identity key.
FirstOfKey(items) ==
    {i \in DOMAIN items :
        \A j \in 1..(i - 1) : IdentityKey(items[j]) # IdentityKey(items[i])}

\* C18 as the specification states it: the output is the canonical findings
\* that are the first with their identity key (file, secret-or-match, start
\* line, end line, start column, end column), in input order.
C18_Original ==
    SecretCalled =>
        LET raw   == call.gitleaksReport.array
            items == [i \in DOMAIN raw |-> transformFinding(raw[i])]
        IN /\ Len(call.out) = Cardinality(FirstOfKey(items))
           /\ \E pos \in [DOMAIN call.out -> FirstOfKey(items)] :
                 /\ \A a, b \in DOMAIN call.out : a < b => pos[a] < pos[b]
                 /\ \A a \in DOMAIN call.out : call.out[a] = items[pos[a]]

\* s with a copy of x put after position p.
InsertAfter(s, p, x) == SubSeq(s, 1, p) \o <<x>> \o SubSeq(s, p + 1, Len(s))

\* C19: the transform of its own output is that output, and a list with one
\* of its entries repeated at any later place has the same transform as the
\* list.
C19_Idempotent ==
    SecretCalled =>
        LET raw == call.gitleaksReport.array
        IN /\ transformSecretScanResponse([array |-> call.out]) = call.out
           /\ \A i \in DOMAIN raw : \A p \in i..Len(raw) :
                 transformSecretScanResponse(
                     [array |-> InsertAfter(raw, p, raw[i])]) = call.out

\* A list of three findings, two of them with the same key, transformed to
\* two findings.
C19_Witness ==
    /\ SecretCalled
    /\ Len(call.gitleaksReport.array) = 3
    /\ call.gitleaksReport.array[1] = Finding3
    /\ call.gitleaksReport.array[2] = Finding2
    /\ Len(call.out) = 2

----------------------------------------------------------------------------
(* What the Trivy runners return *)

TrivyCategories == {"config", "vuln"}

\* The runner of the category has returned a value: the tool exited with 0
\* and the runner did not throw.
Returned(c) == ret[c] \in {"true", "false"}

\* C20: the value a Trivy runner returns after an exit with 0 is true exactly
\* when its output file exists and holds findings, and false when the file is
\* missing, whatever the fail-on flag of its category is.
C20_RunnerReturn ==
    \A c \in TrivyCategories :
        Returned(c) =>
            /\ ret[c] = "true" <=> files[ReportOf(c)] = "findings"
            /\ files[ReportOf(c)] = "missing" => ret[c] = "false"

\* The config runner returned true with the flag off, and the vulnerability
\* runner returned false with the flag on and no output file.
C20_Witness ==
    /\ ret["config"] = "true" /\ ~FailOn("config")
    /\ ret["vuln"] = "false" /\ FailOn("vuln")
    /\ files[ReportOf("vuln")] = "missing"

----------------------------------------------------------------------------
(* The scan runners as functions of the tool's exit and its output file *)

RunnerNames == {"runTrivyScan", "runTrivyVulnScan", "runGitleaksScan"}

\* One call of a runner: the tool exits with status and leaves file where
\* before was; flag is the fail-on flag passed in the options.
CallRunner ==
    /\ call = NoCall
    /\ \E fn \in RunnerNames, status \in ExitStatuses, before \in FileStates,
          flag \in BOOLEAN :
          \E file \in FileAfter(before) :
             call' = [fn |-> fn, status |-> status, before |-> before,
                      file |-> file, fail_on |-> flag,
                      out |-> CASE fn = "runTrivyScan" ->
                                      runTrivyScan(status, file, flag)
                                [] fn = "runTrivyVulnScan" ->
                                      runTrivyVulnScan(status, file, flag)
                                [] fn = "runGitleaksScan" ->
                                      runGitleaksScan(status, file)]
    /\ UNCHANGED mainVars

RunnerNext == CallRunner

RunnerSpec == CallInit /\ [][RunnerNext]_vars

RunnerCalled == call.fn \in RunnerNames

\* C21: runGitleaksScan returns false on exit 0, returns true on exit 1 and
\* throws on any other exit, whatever the report file holds; a Trivy runner
\* throws on every non-zero exit.
C21_ExitStatusDecides ==
    RunnerCalled =>
        IF call.fn = "runGitleaksScan"
          THEN /\ call.status = 0 => call.out = "false"
               /\ call.status = 1 => call.out = "true"
               /\ call.status \notin {0, 1} => call.out = "threw_exec"
          ELSE call.status # 0 => call.out = "threw_exec"

\* gitleaks exits with 2 and leaves a report with findings: the runner throws.
C21_Witness ==
    /\ call.fn = "runGitleaksScan"
    /\ call.status = 2
    /\ call.file = "findings"
    /\ call.out = "threw_exec"

----------------------------------------------------------------------------
(* apiService.js: the console tables of findings *)

severities_reversed == <<"LOW", "MEDIUM", "HIGH", "CRITICAL">>

\* const severities = ['CRITICAL', 'HIGH', 'MEDIUM', 'LOW']
severities == <<"CRITICAL", "HIGH", "MEDIUM", "LOW">>

\* severityEmojis[severity], the coloured circles written by name.
severityEmojis(severity) ==
    CASE severity = "CRITICAL" -> "(red)"
      [] severity = "HIGH"     -> "(orange)"
      [] severity = "MEDIUM"   -> "(yellow)"
      [] severity = "LOW"      -> "(green)"
      [] OTHER                 -> ""

\* String.prototype.toUpperCase on the severities that reports hold.
toUpperCase(str) ==
    CASE str = "critical" -> "CRITICAL"
      [] str = "high"     -> "HIGH"
      [] str = "medium"   -> "MEDIUM"
      [] str = "low"      -> "LOW"
      [] str = "unknown"  -> "UNKNOWN"
      [] OTHER            -> str

RECURSIVE collect(_, _)
\* Results.forEach(result => { if (result.X && result.X.length > 0)
\*                               result.X.forEach(x => list.push(x)) })
collect(results, name) ==
    IF results = << >> THEN << >>
    ELSE (IF NonEmptyArray(Head(results), name) THEN Head(results)[name] ELSE << >>)
         \o collect(Tail(results), name)

RECURSIVE findingCount(_, _)
\* Results?.reduce((sum, r) => sum + (r.X?.length || 0), 0) || 0
findingCount(results, name) ==
    IF results = << >> THEN 0
    ELSE (IF name \in DOMAIN Head(results) THEN Len(Head(results)[name]) ELSE 0)
         + findingCount(Tail(results), name)

\* list.filter(v => (v.Severity || '').toUpperCase() === severity)
ofSeverity(list, severity) ==
    SelectSeq(list, LAMBDA v : toUpperCase(Or(Prop(v, "Severity"), "")) = severity)

\* rows.push([pkg, vulnId, sev, fixed])
vulnRow(vuln, severity) ==
    <<Or(Prop(vuln, "PkgName"), "Unknown"),
      Or(Prop(vuln, "VulnerabilityID"), "N/A"),
      severityEmojis(severity) \o " " \o severity,
      Or(Prop(vuln, "FixedVersion"), "N/A")>>

\* rows.push([file, issue, sev, line])
configRow(config, severity) ==
    <<Or(config.File, "Unknown"),
      Or(config.Issue, "N/A"),
      severityEmojis(severity) \o " " \o severity,
      config.Line>>

RECURSIVE vulnRows(_, _)
\* severities.forEach(severity => ...) of displayVulnerabilityTable, from the
\* i-th severity on.
vulnRows(vulnerabilities, i) ==
    IF i > Len(severities) THEN << >>
    ELSE LET vulnsOfSeverity == ofSeverity(vulnerabilities, severities[i])
         IN [j \in DOMAIN vulnsOfSeverity |->
                vulnRow(vulnsOfSeverity[j], severities[i])]
            \o vulnRows(vulnerabilities, i + 1)

RECURSIVE configRows(_, _)
\* severities.forEach(severity => ...) of displayConfigTable.
configRows(misconfigurations, i) ==
    IF i > Len(severities) THEN << >>
    ELSE LET configsOfSeverity == ofSeverity(misconfigurations, severities[i])
         IN [j \in DOMAIN configsOfSeverity |->
                configRow(configsOfSeverity[j], severities[i])]
            \o configRows(misconfigurations, i + 1)

\* No table is printed.
NoTable == [printed |-> FALSE, rows |-> << >>]

ResultsOf(report) == IF "Results" \in DOMAIN report THEN report.Results ELSE << >>

\* displayVulnerabilityTable(trivyVuln): the rows handed to
\* createFormattedTable.
displayVulnerabilityTable(trivyVuln) ==
    IF IsNull(trivyVuln) \/ ResultsOf(trivyVuln) = << >> THEN NoTable
    ELSE LET vulnerabilities == collect(trivyVuln.Results, "Vulnerabilities")
         IN IF vulnerabilities = << >> THEN NoTable
            ELSE [printed |-> TRUE, rows |-> vulnRows(vulnerabilities, 1)]

RECURSIVE misconfigurationsOf(_)
\* The { File, Issue, Severity, Line } objects displayConfigTable collects.
misconfigurationsOf(results) ==
    IF results = << >> THEN << >>
    ELSE LET result == Head(results)
         IN (IF NonEmptyArray(result, "Misconfigurations")
               THEN [j \in DOMAIN result.Misconfigurations |->
                       LET misc == result.Misconfigurations[j]
                       IN [File     |-> Or(Prop(result, "Target"), "Unknown"),
                           Issue    |-> Or(Prop(misc, "Title"),
                                           Or(Prop(misc, "ID"), "N/A")),
                           Severity |-> Or(Prop(misc, "Severity"), "UNKNOWN"),
                           Line     |-> "N/A"]]
               ELSE << >>)
            \o misconfigurationsOf(Tail(results))

\* displayConfigTable(trivyConfig)
displayConfigTable(trivyConfig) ==
    IF IsNull(trivyConfig) \/ ResultsOf(trivyConfig) = << >> THEN NoTable
    ELSE LET misconfigurations == misconfigurationsOf(trivyConfig.Results)
         IN IF misconfigurations = << >> THEN NoTable
            ELSE [printed |-> TRUE, rows |-> configRows(misconfigurations, 1)]

----------------------------------------------------------------------------
(* The tables as functions of the reports *)

MaxFindings == 3

\* Vulnerabilities of a Trivy report: two of severity HIGH, one with a
\* lower-case severity, one with a severity outside the four, one with none.
VulnerabilityPool ==
    {[VulnerabilityID |-> "CVE-1", PkgName |-> "openssl", Severity |-> "CRITICAL",
      FixedVersion |-> "3.0.1"],
     [VulnerabilityID |-> "CVE-2", PkgName |-> "zlib", Severity |-> "HIGH"],
     [VulnerabilityID |-> "CVE-3", PkgName |-> "curl", Severity |-> "low"],
     [VulnerabilityID |-> "CVE-4", PkgName |-> "bash", Severity |-> "UNKNOWN"],
     [VulnerabilityID |-> "CVE-5", PkgName |-> "tar"],
     [VulnerabilityID |-> "CVE-6", Severity |-> "HIGH", FixedVersion |-> "1.2"]}

\* Misconfigurations of a Trivy report, with the same spread of severities.
MisconfigurationPool ==
    {Misconfiguration1, Misconfiguration2,
     [ID |-> "DS026", Title |-> "no healthcheck", Severity |-> "LOW"],
     [ID |-> "KSV017", Severity |-> "CRITICAL"],
     [ID |-> "KSV012", Title |-> "runs as root", Severity |-> "high"],
     [ID |-> "KSV999", Title |-> "custom check", Severity |-> "NEGLIGIBLE"]}

TableKeys == {"trivyVuln", "trivyConfig"}

FindingsName(k) == IF k = "trivyVuln" THEN "Vulnerabilities" ELSE "Misconfigurations"

FindingsPool(k) == IF k = "trivyVuln" THEN VulnerabilityPool ELSE MisconfigurationPool

\* How a report spreads its findings over Results: no Results at all, one
\* target, or three targets of which the second has no findings property.
Shapes == {"none", "one", "three"}

ReportOfShape(list, name, shape) ==
    CASE shape = "none"  -> [ArtifactName |-> "."]
      [] shape = "one"   -> [Results |-> <<[Target |-> "a"] @@ (name :> list)>>]
      [] shape = "three" ->
            [Results |-> <<[Target |-> "a"]
                              @@ (name :> IF list = << >> THEN << >> ELSE <<Head(list)>>),
                           [Target |-> "b"],
                           [Class |-> "config"]
                              @@ (name :> IF list = << >> THEN << >> ELSE Tail(list))>>]

\* displayScanResults for one Trivy report: the printed total and the table.
CallDisplayScanResults ==
    /\ call = NoCall
    /\ \E k \in TableKeys, shape \in Shapes :
          \E list \in SeqsUpTo(FindingsPool(k), MaxFindings) :
             LET report == ReportOfShape(list, FindingsName(k), shape)
             IN call' = [fn |-> "displayScanResults", key |-> k, report |-> report,
                         total |-> findingCount(ResultsOf(report), FindingsName(k)),
                         out |-> IF k = "trivyVuln"
                                   THEN displayVulnerabilityTable(report)
                                   ELSE displayConfigTable(report)]
    /\ UNCHANGED mainVars

DisplayNext == CallDisplayScanResults

DisplaySpec == CallInit /\ [][DisplayNext]_vars

Displayed == call.fn = "displayScanResults"

\* The findings of the displayed report, in report order.
FindingsOf(c) == collect(ResultsOf(c.report), FindingsName(c.key))

\* The severity a finding is listed under.
Listed(finding) == toUpperCase(Or(Prop(finding, "Severity"), ""))

FourSeverities == {"CRITICAL", "HIGH", "MEDIUM", "LOW"}

Rank(severity) ==
    CASE severity = "CRITICAL" -> 1 [] severity = "HIGH" -> 2
      [] severity = "MEDIUM" -> 3 [] severity = "LOW" -> 4

\* The text of a finding in the second column of its row.
Label(k, finding) ==
    IF k = "trivyVuln" THEN finding.VulnerabilityID
    ELSE Or(Prop(finding, "Title"), finding.ID)

----------------------------------------------------------------------------
(* apiService.js: createFormattedTable.  A text is its sequence of          *)
(* characters; the box-drawing characters are written + - |.               *)

Min(a, b) == IF a <= b THEN a ELSE b

Max(a, b) == IF a >= b THEN a ELSE b

\* c.repeat(n)
Repeat(c, n) == [i \in 1..n |-> c]

\* str.padEnd(n)
padEnd(str, n) == str \o Repeat(" ", Max(n - Len(str), 0))

\* str.substring(0, end): an end below 0 is 0, an end past the text is its
\* length.
substring(str, end) == SubSeq(str, 1, Min(Max(end, 0), Len(str)))

\* const defaultMaxWidths = { 0: 50, 1: 40, 2: 15, 3: 20 }
defaultMaxWidths == <<50, 40, 15, 20>>

\* const customWidths = { 0: 70, 1: 8, 2: 30 } of displaySecretTable
customWidths == <<70, 8, 30>>

\* maxColWidths = null
NoWidths == << >>

\* const maxAllowed = maxWidths[idx] || 50, with maxWidths =
\* maxColWidths || defaultMaxWidths; idx counts from 1 here.
maxAllowed(maxColWidths, idx) ==
    LET maxWidths == IF maxColWidths = NoWidths THEN defaultMaxWidths
                     ELSE maxColWidths
    IN IF idx \in DOMAIN maxWidths /\ maxWidths[idx] # 0 THEN maxWidths[idx] ELSE 50

\* Math.max(...rows.map(row => (row[idx] || '').toString().length))
maxRowWidth(rows, idx) ==
    CHOOSE m \in {Len(rows[r][idx]) : r \in DOMAIN rows} :
        \A r \in DOMAIN rows : Len(rows[r][idx]) <= m

\* const colWidths = headers.map((header, idx) => ...)
colWidths(headers, rows, maxColWidths) ==
    [idx \in DOMAIN headers |->
        Min(Max(Len(headers[idx]), maxRowWidth(rows, idx)) + 2,
            maxAllowed(maxColWidths, idx))]

truncateText_noRoom(text, maxWidth) ==
    LET availableWidth == maxWidth - 2
    IN IF Len(text) <= availableWidth THEN text
       ELSE substring(text, availableWidth) \o <<".", ".", ".">>

\* const truncateText = (text, maxWidth) => ...
truncateText(text, maxWidth) ==
    LET availableWidth == maxWidth - 2
    IN IF Len(text) <= availableWidth THEN text
       ELSE substring(text, availableWidth - 3) \o <<".", ".", ".">>

RECURSIVE join(_, _)
\* parts.join(sep)
join(parts, sep) ==
    IF parts = << >> THEN << >>
    ELSE IF Len(parts) = 1 THEN Head(parts)
    ELSE Head(parts) \o <<sep>> \o join(Tail(parts), sep)

\* '+' + colWidths.map(w => '-'.repeat(w)).join('+') + '+'
border(widths) ==
    <<"+">> \o join([i \in DOMAIN widths |-> Repeat("-", widths[i])], "+") \o <<"+">>

\* '|' + row.map((cell, idx) => ' ' + truncateText(cell, colWidths[idx])
\*                              .padEnd(colWidths[idx] - 1)).join('|') + '|'
tableRow(row, widths) ==
    <<"|">> \o join([idx \in DOMAIN row |->
                       <<" ">> \o padEnd(truncateText(row[idx], widths[idx]),
                                         widths[idx] - 1)], "|")
           \o <<"|">>

\* createFormattedTable(headers, rows, maxColWidths): the lines of the table,
\* none for the empty string.
createFormattedTable(headers, rows, maxColWidths) ==
    IF rows = << >> THEN << >>
    ELSE LET widths == colWidths(headers, rows, maxColWidths)
         IN <<border(widths), tableRow(headers, widths), border(widths)>>
            \o [r \in DOMAIN rows |-> tableRow(rows[r], widths)]
            \o <<border(widths)>>

----------------------------------------------------------------------------
(* createFormattedTable as a function of the texts of one column *)

MaxRows == 2

\* A text of n characters: the digits 1, 2, ..., 9, 0, 1, ...
Text(n) == [i \in 1..n |-> ToString(i % 10)]

\* The two tables of the module: four columns with the default widths, three
\* columns with the widths of the secrets table.
TableWidths == {NoWidths, customWidths}

Columns(maxColWidths) ==
    IF maxColWidths = NoWidths THEN DOMAIN defaultMaxWidths ELSE DOMAIN maxColWidths

\* Lengths of a text around what a column of the given width can show.
TextLengths(width) == {0, width - 3, width - 2, width - 1, width + 3}

\* A row whose cell in column idx has n characters, four in the others.
RowWith(maxColWidths, idx, n) ==
    [j \in Columns(maxColWidths) |-> IF j = idx THEN Text(n) ELSE Text(4)]

CallCreateFormattedTable ==
    /\ call = NoCall
    /\ \E maxColWidths \in TableWidths :
       \E idx \in Columns(maxColWidths) :
          LET lengths == TextLengths(maxAllowed(maxColWidths, idx))
          IN \E h \in lengths, cells \in SeqsUpTo(lengths, MaxRows) :
                LET headers == RowWith(maxColWidths, idx, h)
                    rows == [r \in DOMAIN cells |->
                                RowWith(maxColWidths, idx, cells[r])]
                IN call' = [fn |-> "createFormattedTable",
                            headers |-> headers, rows |-> rows,
                            maxColWidths |-> maxColWidths,
                            out |-> createFormattedTable(headers, rows, maxColWidths)]
    /\ UNCHANGED mainVars

TableNext == CallCreateFormattedTable

TableSpec == CallInit /\ [][TableNext]_vars

TableDrawn == call.fn = "createFormattedTable" /\ call.out # << >>

RECURSIVE Split(_, _)
\* The pieces of a line between the occurrences of a character.
Split(line, sep) ==
    IF \A i \in DOMAIN line : line[i] # sep THEN <<line>>
    ELSE LET i == CHOOSE i \in DOMAIN line :
                     line[i] = sep /\ \A j \in 1..(i - 1) : line[j] # sep
         IN <<SubSeq(line, 1, i - 1)>> \o Split(SubSeq(line, i + 1, Len(line)), sep)

\* What a rendered cell shows: the cell without its padding.
Shown(cell) == SelectSeq(cell, LAMBDA c : c # " ")

\* The texts of the table in the order of its lines: headers, then rows.
TextRows(c) == <<c.headers>> \o c.rows

\* The lines of the table that hold texts.
TextLines(c) == <<c.out[2]>> \o SubSeq(c.out, 4, Len(c.out) - 1)

\* C23: every line of a table is as long as its border; every column is at
\* most as wide as its declared maximum; a text that fits in max - 2
\* characters is shown whole, and a longer one is cut to a prefix followed
\* by an ellipsis, at most max - 2 characters in all, inside a cell that is
\* exactly as wide as its column.
C23_TruncatedCells ==
    TableDrawn =>
        LET borderCells == Split(call.out[1], "+")
            width(idx)  == Len(borderCells[idx + 1])
        IN /\ \A l \in DOMAIN call.out : Len(call.out[l]) = Len(call.out[1])
           /\ Len(TextLines(call)) = Len(TextRows(call))
           /\ \A idx \in DOMAIN call.headers :
                 width(idx) <= maxAllowed(call.maxColWidths, idx)
           /\ \A r \in DOMAIN TextRows(call) :
                 LET cells == Split(TextLines(call)[r], "|")
                 IN /\ Len(cells) = Len(call.headers) + 2
                    /\ \A idx \in DOMAIN call.headers :
                          LET text  == TextRows(call)[r][idx]
                              cell  == cells[idx + 1]
                              shown == Shown(cell)
                              max   == maxAllowed(call.maxColWidths, idx)
                          IN /\ Len(cell) = width(idx)
                             /\ Len(shown) <= max - 2
                             /\ IF Len(text) <= max - 2 THEN shown = text
                                ELSE /\ Len(shown) >= 3
                                     /\ SubSeq(shown, Len(shown) - 2, Len(shown))
                                           = <<".", ".", ".">>
                                     /\ SubSeq(shown, 1, Len(shown) - 3)
                                           = SubSeq(text, 1, Len(shown) - 3)

\* The line column of the secrets table (8 wide) with a cell of 11
\* characters, cut to 3 characters and an ellipsis.
C23_Witness ==
    /\ TableDrawn
    /\ call.maxColWidths = customWidths
    /\ Len(call.rows) = 2
    /\ Len(call.rows[2][2]) = 11
    /\ Split(call.out[5], "|")[3] = <<" ", "1", "2", "3", ".", ".", ".", " ">>

----------------------------------------------------------------------------
(* The transformers and the environment *)

\* Values of process.env.WORKSPACE and of process.cwd().
Workspaces == {Undefined, "/ws", "/var/jenkins/workspace/job"}

WorkingDirs == {"/cwd", "/ws"}

\* C24 as the specification states it: the result of
\* transformConfigScanResponse is a function of the report alone, the same
\* under every WORKSPACE and every working directory.
C24_Original ==
    ConfigCalled =>
        \A workspace \in Workspaces, cwd \in WorkingDirs :
            transformConfigScanResponse(call.trivyConfig, workspace, cwd) = call.out

----------------------------------------------------------------------------
(* The three events of the upload request *)

IsSettled == promise \in {"resolved", "rejected"}

\* What the handler of each event settles the promise with.
Decides(event) ==
    CASE event = "end" ->
           IF Is2xx(response'.statusCode)
             THEN promise' = "resolved"
                  /\ settled' = [statusCode |-> response'.statusCode,
                                 data |-> ParseBody(response'.data)]
             ELSE promise' = "rejected"
                  /\ settled' = StatusError(response'.statusCode, response'.data)
      [] event = "error"   -> promise' = "rejected" /\ settled' = NetworkError
      [] event = "timeout" -> promise' = "rejected" /\ settled' = TimeoutError

\* The lines that report a successful upload, and those that report a failed
\* one.
SuccessLines == {"Reports sent successfully",
                 "Successfully processed and sent all reports",
                 "All scans and API submission completed"}

FailureLines == {"API request failed with status", "API request failed",
                 "Failed to process and send reports",
                 "Failed to send reports to API"}

----------------------------------------------------------------------------
(* The exit status *)

Ended == pc = "done"

\* The category ended with findings or with an error while its flag was set.
Blocked(c) == FailOn(c) /\ ret[c] \in {"true", "threw_exec", "threw_parse"}

\* The one upload request was answered with a 2xx status.
Uploaded ==
    /\ requests = 1
    /\ "end" \in events
    /\ response.statusCode \in 200..299

----------------------------------------------------------------------------
(* apiService.js: the secrets the console counts *)

\* `${file}|${match}|${startLine}|${endLine}|${startCol}|${endCol}` with
\* match = secret.Match || secret.Secret || '' and each position || '0'.
consoleKey(secret) ==
    Or(Prop(secret, "File"), "") \o "|"
        \o Or(Prop(secret, "Match"), Or(Prop(secret, "Secret"), "")) \o "|"
        \o LineString(secret, "StartLine") \o "|"
        \o LineString(secret, "EndLine") \o "|"
        \o LineString(secret, "StartColumn") \o "|"
        \o LineString(secret, "EndColumn")

RECURSIVE uniqueCount(_, _)
\* reports.gitleaks.forEach(secret => { if (!seen.has(key)) uniqueCount++ })
\* of displayScanResults; displaySecretTable keeps one row for each.
uniqueCount(gitleaks, seen) ==
    IF gitleaks = << >> THEN 0
    ELSE LET key == consoleKey(Head(gitleaks))
         IN IF key \in seen
              THEN uniqueCount(Tail(gitleaks), seen)
              ELSE 1 + uniqueCount(Tail(gitleaks), seen \cup {key})

\* C27 as the specification states it: the console counts as many unique
\* secrets as scannerSecretResponse has entries.
C27_Original ==
    SecretCalled => uniqueCount(call.gitleaksReport.array, {}) = Len(call.out)

----------------------------------------------------------------------------
(* The identity tuple and the key string *)

\* C28 as the specification states it: two findings of a report with
\* different identity tuples (file, secret-or-match, start line, end line,
\* start column, end column) are both in the output.
C28_Original ==
    SecretCalled =>
        LET raw   == call.gitleaksReport.array
            items == [i \in DOMAIN raw |-> transformFinding(raw[i])]
        IN \A i, j \in DOMAIN items :
              IdentityKey(items[i]) # IdentityKey(items[j]) =>
                 \E a, b \in DOMAIN call.out :
                    /\ a # b
                    /\ IdentityKey(call.out[a]) = IdentityKey(items[i])
                    /\ IdentityKey(call.out[b]) = IdentityKey(items[j])

----------------------------------------------------------------------------
(* Termination *)

\* Each external tool returns, node runs what is ready to run, and the timer
\* of the request fires while the request is open.  Nothing is assumed of
\* the network: no response and no error has to come.
FairSpec ==
    /\ Spec
    /\ WF_vars(RunCdxgen)
    /\ \A c \in Categories : WF_vars(StartRunner(c)) /\ WF_vars(FinishRunner(c))
    /\ WF_vars(Aggregate)
    /\ WF_vars(Display)
    /\ WF_vars(Send)
    /\ WF_vars(Timeout)
    /\ WF_vars(AwaitResume)
    /\ WF_vars(ProcessEnd)

----------------------------------------------------------------------------
(* apiService.js: what the console shows of keys and secrets *)

\* function maskValue(value)
maskValue(value) ==
    IF value \in {Undefined, ""} \/ Len(value) <= 8 THEN "****"
    ELSE SubSeq(value, 1, 4) \o "****" \o SubSeq(value, Len(value) - 3, Len(value))

\* `${value}` of an environment variable: an unset one prints as undefined.
Interpolate(value) == IF value = Undefined THEN "undefined" ELSE value

\* The module's start: the environment dump of debug mode.
startupLines(debug, ntApiKey, ntSecretKey) ==
    IF debug
      THEN <<"NT_API_KEY:', " \o Interpolate(ntApiKey),
             "NT_SECRET_KEY: " \o Interpolate(ntSecretKey)>>
      ELSE <<"Starting API Service (Debug Mode: OFF)">>

RECURSIVE consoleDedup(_, _)
\* gitleaks.forEach(secret => { if (!seen.has(key)) deduplicated.push(secret) })
consoleDedup(gitleaks, seen) ==
    IF gitleaks = << >> THEN << >>
    ELSE LET key == consoleKey(Head(gitleaks))
         IN IF key \in seen
              THEN consoleDedup(Tail(gitleaks), seen)
              ELSE <<Head(gitleaks)>> \o consoleDedup(Tail(gitleaks), seen \cup {key})

RECURSIVE stripSlashes(_)
\* .replace(/^\/+/, '')
stripSlashes(str) ==
    IF Len(str) > 0 /\ SubSeq(str, 1, 1) = "/"
      THEN stripSlashes(SubSeq(str, 2, Len(str))) ELSE str

\* (secret.StartLine || 'N/A').toString()
lineCell(secret) ==
    IF "StartLine" \notin DOMAIN secret THEN "N/A"
    ELSE LET v == secret.StartLine
         IN IF "num" \in DOMAIN v
              THEN (IF v.num # 0 THEN ToString(v.num) ELSE "N/A")
              ELSE (IF v.str # "" THEN v.str ELSE "N/A")

\* rows.push([cleanFile, line, matched]) of displaySecretTable: the rows
\* handed to createFormattedTable, printed in every mode.
secretRows(gitleaks) ==
    LET deduplicated == consoleDedup(gitleaks, {})
    IN [i \in DOMAIN deduplicated |->
          <<stripSlashes(Or(Prop(deduplicated[i], "File"), "Unknown")),
            lineCell(deduplicated[i]),
            Or(Prop(deduplicated[i], "Match"), "N/A")>>]

\* JSON.stringify(combinedScanRequest, null, 2): the lines of one secret that
\* hold its texts.
jsonLines(secret) ==
    <<"      \"Match\": \"" \o secret.Match \o "\",",
      "      \"Secret\": \"" \o secret.Secret \o "\",">>

RECURSIVE FlatLines(_)
FlatLines(groups) ==
    IF groups = << >> THEN << >> ELSE Head(groups) \o FlatLines(Tail(groups))

\* The debugLog calls of sendToAPI that show a key or a secret.
sendToAPILines(debug, ntApiKey, ntSecretKey, scannerSecretResponse) ==
    IF ~debug THEN << >>
    ELSE [i \in DOMAIN scannerSecretResponse |->
             "           Secret: " \o maskValue(scannerSecretResponse[i].Secret)]
         \o FlatLines([i \in DOMAIN scannerSecretResponse |->
                          jsonLines(scannerSecretResponse[i])])
         \o <<"  \"x-api-key\": \"***\"", "  \"x-secret-key\": \"***\"">>

----------------------------------------------------------------------------
(* The console as a function of the keys and of the gitleaks report *)

MaxLeaks == 2

\* Values of NT_API_KEY and NT_SECRET_KEY: not set, short, long.
KeyValues == {Undefined, "k3y-0001", "sk-live-1234567890"}

\* Findings of gitleaks: a long secret inside its match, a short one, and a
\* finding that has a match only.
Leak1 ==
    [RuleID |-> "aws-key", File |-> "/src/a.env", Match |-> "key=AKIAIOSFODNN7",
     Secret |-> "AKIAIOSFODNN7", StartLine |-> [num |-> 3], EndLine |-> [num |-> 3],
     StartColumn |-> [num |-> 1], EndColumn |-> [num |-> 17]]

Leak2 ==
    [RuleID |-> "password", File |-> "b.yml", Match |-> "pw: hunter2",
     Secret |-> "hunter2", StartLine |-> [num |-> 0], EndLine |-> [num |-> 0],
     StartColumn |-> [num |-> 5], EndColumn |-> [num |-> 11]]

Leak3 == [RuleID |-> "token", File |-> "c.txt", Match |-> "tok_9f8e7d6c5b4a"]

LeakPool == {Leak1, Leak2, Leak3}

\* One run of the module's logging: the start, the secrets table and the
\* debug lines of sendToAPI.
CallConsole ==
    /\ call = NoCall
    /\ \E debug \in BOOLEAN, ntApiKey \in KeyValues, ntSecretKey \in KeyValues :
       \E gitleaks \in SeqsUpTo(LeakPool, MaxLeaks) :
          LET scannerSecretResponse ==
                  transformSecretScanResponse([array |-> gitleaks])
          IN call' = [fn |-> "console", debug |-> debug, ntApiKey |-> ntApiKey,
                      ntSecretKey |-> ntSecretKey, gitleaks |-> gitleaks,
                      secrets |-> scannerSecretResponse,
                      out |-> [lines |-> startupLines(debug, ntApiKey, ntSecretKey)
                                         \o sendToAPILines(debug, ntApiKey,
                                                ntSecretKey, scannerSecretResponse),
                               rows |-> secretRows(gitleaks)]]
    /\ UNCHANGED mainVars

ConsoleNext == CallConsole

ConsoleSpec == CallInit /\ [][ConsoleNext]_vars

ConsoleCalled == call.fn = "console"

\* The text holds the value as it is.
Contains(text, value) ==
    \E i \in 1..(Len(text) - Len(value) + 1) :
        SubSeq(text, i, i + Len(value) - 1) = value

\* The values to keep out of the console: the two keys and the secret of
\* each finding.
Sensitive(c) ==
    ({c.ntApiKey, c.ntSecretKey} \ {Undefined})
    \cup {c.secrets[i].Secret : i \in DOMAIN c.secrets}

\* C30 as the specification states it: in either mode no line of the console
\* and no cell of the secrets table holds the API key, the secret key or a
\* detected secret as it is.
C30_Original ==
    ConsoleCalled =>
        \A value \in Sensitive(call) :
            /\ \A l \in DOMAIN call.out.lines : ~Contains(call.out.lines[l], value)
            /\ \A r \in DOMAIN call.out.rows :
                  \A cell \in 1..3 : ~Contains(call.out.rows[r][cell], value)

====
